---- MODULE Spec2Model ----
(***************************************************************************)
(* A model of tracker.py (Hafoozi/price-tracker): the fetch step, the      *)
(* price / stock extraction cascade of scrape_product and is_out_of_stock, *)
(* and the run() loop with its price history, its once-per-day alert       *)
(* suppression map and its end-of-run staleness check.                     *)
(*                                                                         *)
(* Prices are integers in mills (1/1000 of a currency unit), so that the   *)
(* two-decimal formatting of log_price is a real rounding.  Time is an     *)
(* integer number of hours; a calendar day is HoursPerDay hours.           *)
(***************************************************************************)
EXTENDS Integers, Sequences, FiniteSets, TLC

\* ------------------------------------------------------------------------
\* Bounds of the model
\* ------------------------------------------------------------------------
MaxHours == 72
TickHours == 24
MaxRows == 3
MaxOffers == 2
MaxItems == 2
MaxScripts == 1
MaxElems == 3
MaxButtons == 1

\* ------------------------------------------------------------------------
\* Program constants
\* ------------------------------------------------------------------------
HoursPerDay == 24
STALE_HOURS == 24
PruneDays == 2
ButtonScanLimit == 100
NoPrice == -1
NoDate == -1

\* ------------------------------------------------------------------------
\* Generic helpers
\* ------------------------------------------------------------------------
Range(s) == {s[i] : i \in 1..Len(s)}

Min(a, b) == IF a < b THEN a ELSE b

\* Python's `sub in s` for strings, on sequences of characters.
Contains(sub, s) ==
  \E i \in 0..(Len(s) - Len(sub)) :
     \A j \in 1..Len(sub) : s[i + j] = sub[j]

\* datetime.now().strftime("%Y-%m-%d"): the calendar day of an instant.
DayOf(t) == t \div HoursPerDay

\* ------------------------------------------------------------------------
\* clean_price
\* ------------------------------------------------------------------------
Digits == {"0", "1", "2", "3", "4", "5", "6", "7", "8", "9"}

DigitVal(c) ==
  CASE c = "0" -> 0 [] c = "1" -> 1 [] c = "2" -> 2 [] c = "3" -> 3
    [] c = "4" -> 4 [] c = "5" -> 5 [] c = "6" -> 6 [] c = "7" -> 7
    [] c = "8" -> 8 [] c = "9" -> 9

\* re.sub(r"[^\d.]", "", raw.replace(",", "")): keep digits and dots only.
RECURSIVE KeepDigitsAndDots(_)
KeepDigitsAndDots(raw) ==
  IF raw = <<>> THEN <<>>
  ELSE IF Head(raw) \in Digits \cup {"."}
       THEN <<Head(raw)>> \o KeepDigitsAndDots(Tail(raw))
       ELSE KeepDigitsAndDots(Tail(raw))

RECURSIVE DigitsToInt(_, _)
DigitsToInt(ds, acc) ==
  IF ds = <<>> THEN acc
  ELSE DigitsToInt(Tail(ds), acc * 10 + DigitVal(Head(ds)))

DotPositions(s) == {i \in 1..Len(s) : s[i] = "."}

\* The fractional digits as mills: at most three digits are significant.
FracMills(ds) ==
  LET d(i) == IF i <= Len(ds) THEN DigitVal(ds[i]) ELSE 0
  IN  d(1) * 100 + d(2) * 10 + d(3)

\* float(cleaned): a value in mills, or NoPrice where float() raises
\* ValueError (no digit at all, or more than one decimal point).
ParseFloat(s) ==
  LET dots == DotPositions(s) IN
  IF Cardinality(dots) > 1 \/ (Len(s) - Cardinality(dots)) = 0 THEN NoPrice
  ELSE IF dots = {} THEN DigitsToInt(s, 0) * 1000
  ELSE LET p == CHOOSE i \in dots : TRUE
       IN  DigitsToInt(SubSeq(s, 1, p - 1), 0) * 1000
             + FracMills(SubSeq(s, p + 1, Len(s)))

clean_price(raw) ==
  IF raw = <<>> THEN NoPrice ELSE ParseFloat(KeepDigitsAndDots(raw))

\* `if price and price > 0`
Usable(price) == price # NoPrice /\ price > 0

\* ------------------------------------------------------------------------
\* The fetch step of scrape_product
\* ------------------------------------------------------------------------
HEADERS == "desktop"
HEADERS_MOBILE == "mobile"

\* requests.Response.raise_for_status raises for 4xx and 5xx only.
RaisesForStatus(status) == status >= 400 /\ status < 600

BlockedStatus(status) == status \in {403, 429, 503}

\* The loop `for hdrs in [HEADERS, HEADERS_MOBILE]`: hdrs are the identities
\* still to try, resps the responses the server gives to the attempts in
\* order, acc the requests issued and backoff sleeps done so far.
RECURSIVE FetchLoop(_, _, _)
FetchLoop(hdrs, resps, acc) ==
  IF hdrs = <<>>
  THEN [ok |-> FALSE, requests |-> acc.requests, backoffs |-> acc.backoffs]
  ELSE LET r    == Head(resps)
           reqs == Append(acc.requests, Head(hdrs))
       IN  IF r.err
           THEN [ok |-> FALSE, requests |-> reqs, backoffs |-> acc.backoffs]
           ELSE IF r.status = 200
           THEN [ok |-> TRUE, requests |-> reqs, backoffs |-> acc.backoffs]
           ELSE IF BlockedStatus(r.status)
           THEN FetchLoop(Tail(hdrs), Tail(resps),
                          [requests |-> reqs, backoffs |-> acc.backoffs + 1])
           ELSE IF RaisesForStatus(r.status)
           THEN [ok |-> FALSE, requests |-> reqs, backoffs |-> acc.backoffs]
           ELSE FetchLoop(Tail(hdrs), Tail(resps),
                          [requests |-> reqs, backoffs |-> acc.backoffs])

Fetch(resps) ==
  FetchLoop(<<HEADERS, HEADERS_MOBILE>>, resps,
            [requests |-> <<>>, backoffs |-> 0])

\* ------------------------------------------------------------------------
\* The fetched document
\*
\* doc.scripts : the <script type="application/ld+json"> blocks in order;
\*               each [valid, items]: valid = FALSE when json.loads raises.
\*   item      : [dict, offers, hasVariant, image]; dict = FALSE for a JSON
\*               value without .get (item.get raises AttributeError).
\*   offer     : [url, price, lowPrice, availability]; url, price and
\*               lowPrice are character sequences, <<>> when absent.
\* doc.elems   : the span/div/s/del elements in document order, each
\*               [tag, classes, parent, text]; parent is the index of the
\*               enclosing element (0 at top level), text is get_text().
\* doc.metaProp, doc.metaName : content of <meta property=
\*               "product:availability"> and <meta name="availability">,
\*               "absent" when the tag is missing.
\* doc.buttons : the <button> elements in order, each [disabled, text].
\* doc.ogImage : the og:image meta tag.
\* ------------------------------------------------------------------------

\* re.search(r'[?&](?:variant|sku_id|sku)=([\w\-]+)', url): the page URL is
\* [param, value]; <<>> stands for variant_id = None.
VariantId(url) ==
  IF url.param \in {"variant", "sku_id", "sku"} THEN url.value ELSE <<>>

RECURSIVE VariantOffers(_)
VariantOffers(variants) ==
  IF variants = <<>> THEN <<>>
  ELSE Head(variants) \o VariantOffers(Tail(variants))

\* all_offers: item.offers followed by the offers under item.hasVariant.
AllOffers(item) == item.offers \o VariantOffers(item.hasVariant)

\* A variant of CandidateOffers that never filters by the identifier.
CandidateOffers_unfiltered(item, vid) == AllOffers(item)

\* matched_offers if matched_offers else all_offers
CandidateOffers(item, vid) ==
  LET all     == AllOffers(item)
      matched == SelectSeq(all, LAMBDA o : Contains(vid, o.url))
  IN  IF vid # <<>> /\ matched # <<>> THEN matched ELSE all

\* for offer in candidate_offers: first offer with a usable price.
RECURSIVE FirstUsablePrice(_)
FirstUsablePrice(offers) ==
  IF offers = <<>> THEN NoPrice
  ELSE LET o         == Head(offers)
           price_raw == IF o.price # <<>> THEN o.price ELSE o.lowPrice
           price     == clean_price(price_raw)
       IN  IF price_raw # <<>> /\ Usable(price) THEN price
           ELSE FirstUsablePrice(Tail(offers))

\* The body of `for item in items` for one script block; an exception
\* (a non-dict item, img[0] on an empty list) leaves the block, keeping
\* what was set so far.
RECURSIVE ItemsPrice(_, _, _)
ItemsPrice(items, vid, res) ==
  IF items = <<>> THEN res
  ELSE LET it == Head(items) IN
       IF ~it.dict THEN res
       ELSE LET res1 ==
                  IF res.price = NoPrice /\ AllOffers(it) # <<>>
                  THEN [res EXCEPT !.price =
                                     FirstUsablePrice(CandidateOffers(it, vid))]
                  ELSE res
            IN  IF res1.image = "none" /\ it.image = "emptylist" THEN res1
                ELSE ItemsPrice(Tail(items), vid,
                       IF res1.image = "none" /\ it.image = "ok"
                       THEN [res1 EXCEPT !.image = "ok"] ELSE res1)

\* Step 1: for script in soup.find_all("script", type="application/ld+json")
RECURSIVE JsonLdPrice(_, _, _)
JsonLdPrice(scripts, vid, res) ==
  IF scripts = <<>> THEN res
  ELSE JsonLdPrice(Tail(scripts), vid,
         IF Head(scripts).valid
         THEN ItemsPrice(Head(scripts).items, vid, res) ELSE res)

\* ------------------------------------------------------------------------
\* Step 2: markup price elements
\* ------------------------------------------------------------------------
\* The class names the model's documents use, and which of them each
\* regular expression of the source matches (re.I, re.search).
ClassNames ==
  {"price", "sale-price", "product__price", "product-price",
   "compare-at-price", "was-price", "strikethrough", "money"}

\* price__sale|sale[_\-]?price|current[_\-]?price|price--sale
SaleRe == {"sale-price"}
\* price__current|product__price|ProductPrice
CurrentRe == {"product__price"}
\* product-price|current-price
ProductRe == {"product-price"}
\* compare[_\-]?at|was[_\-]?price|original[_\-]?price|price[_\-]?was|
\* price--compare|price__compare|crossed|strikethrough|line-through
COMPARE_AT_PATTERN == {"compare-at-price", "was-price", "strikethrough"}
\* price
PriceRe == {"price", "sale-price", "product__price", "product-price",
            "compare-at-price", "was-price"}

selectors ==
  << [tag |-> "span", class |-> SaleRe],
     [tag |-> "div",  class |-> CurrentRe],
     [tag |-> "span", class |-> ProductRe] >>

Matches(el, tag, re) == el.tag = tag /\ el.classes \cap re # {}

\* soup.find(tag, {"class": re}): index of the first match, 0 for None.
Find(elems, tag, re) ==
  LET hits == {i \in 1..Len(elems) : Matches(elems[i], tag, re)}
  IN  IF hits = {} THEN 0
      ELSE CHOOSE i \in hits : \A j \in hits : i <= j

\* el.parents: the indices of the enclosing elements.
RECURSIVE Parents(_, _)
Parents(elems, i) ==
  IF elems[i].parent = 0 THEN {}
  ELSE {elems[i].parent} \cup Parents(elems, elems[i].parent)

\* for sel in selectors: when soup.find returns an element, the code
\* evaluates `[el] + el.parents`.  el.parents is a generator, and adding a
\* generator to a list raises TypeError, which leaves scrape_product.
RECURSIVE SelectorStage(_, _)
SelectorStage(sels, elems) ==
  IF sels = <<>> THEN [raised |-> FALSE, price |-> NoPrice]
  ELSE LET el == Find(elems, Head(sels).tag, Head(sels).class) IN
       IF el # 0 THEN [raised |-> TRUE, price |-> NoPrice]
       ELSE SelectorStage(Tail(sels), elems)

\* el.find_parent(["s", "del"]) or el.name in ["s", "del"]
CrossedOut(elems, i) ==
  elems[i].tag \in {"s", "del"}
  \/ \E a \in Parents(elems, i) : elems[a].tag \in {"s", "del"}

\* Last resort: for el in soup.find_all("span", {"class": re "price"}).
\* Returns the index of the element whose price is taken, 0 for none.
RECURSIVE BroadFallbackFrom(_, _)
BroadFallbackFrom(elems, i) ==
  IF i > Len(elems) THEN 0
  ELSE IF Matches(elems[i], "span", PriceRe)
          /\ elems[i].classes \cap COMPARE_AT_PATTERN = {}
          /\ ~CrossedOut(elems, i)
          /\ Usable(clean_price(elems[i].text))
       THEN i
       ELSE BroadFallbackFrom(elems, i + 1)

BroadFallback(elems) == BroadFallbackFrom(elems, 1)

\* ------------------------------------------------------------------------
\* is_out_of_stock
\* ------------------------------------------------------------------------
\* The availability values the model's offers carry and the substrings the
\* source looks for in them.  "null" is a non-string value, on which
\* `x in avail` raises TypeError.
Availabilities ==
  {"", "https://schema.org/InStock", "https://schema.org/OutOfStock",
   "SoldOut", "PreOrder", "null"}

\* any(x in avail for x in ["OutOfStock","SoldOut","Discontinued","BackOrder"])
oos_signals == {"https://schema.org/OutOfStock", "SoldOut"}
\* "InStock" in avail
InStockAvail == {"https://schema.org/InStock"}

\* for offer in candidate_offers: "oos" for return True, "in" for return
\* False, "raise" for an exception, "none" when the loop ends undecided.
RECURSIVE OfferScan(_)
OfferScan(offers) ==
  IF offers = <<>> THEN "none"
  ELSE LET avail == Head(offers).availability IN
       IF avail = "null" THEN "raise"
       ELSE IF avail \in oos_signals THEN "oos"
       ELSE IF avail \in InStockAvail THEN "in"
       ELSE OfferScan(Tail(offers))

\* for item in items, inside the try of one script block.
RECURSIVE ItemsScan(_, _)
ItemsScan(items, vid) ==
  IF items = <<>> THEN "none"
  ELSE IF ~Head(items).dict THEN "none"
  ELSE LET r == OfferScan(CandidateOffers(Head(items), vid)) IN
       IF r \in {"oos", "in"} THEN r
       ELSE IF r = "raise" THEN "none"
       ELSE ItemsScan(Tail(items), vid)

\* 1. JSON-LD structured data: the first decisive offer, "none" if no
\* offer decides.
RECURSIVE StructuredSignal(_, _)
StructuredSignal(scripts, vid) ==
  IF scripts = <<>> THEN "none"
  ELSE LET r == IF Head(scripts).valid
                THEN ItemsScan(Head(scripts).items, vid) ELSE "none"
       IN  IF r # "none" THEN r ELSE StructuredSignal(Tail(scripts), vid)

\* The meta contents the model's documents use; (content or "").strip().lower()
MetaContents ==
  {"absent", "", "In Stock", "instock", "Out Of Stock ", "oos", "limited"}

StripLower(content) ==
  CASE content = "In Stock"      -> "in stock"
    [] content = "Out Of Stock " -> "out of stock"
    [] OTHER                     -> content

\* 2. soup.find("meta", {"property": "product:availability"}) or
\*    soup.find("meta", {"name": "availability"})
MetaSignal(doc) ==
  LET meta_avail == IF doc.metaProp # "absent" THEN doc.metaProp
                    ELSE doc.metaName
      val == StripLower(meta_avail)
  IN  IF meta_avail = "absent" THEN "none"
      ELSE IF val \in {"out of stock", "oos", "sold out", "backorder",
                       "preorder"} THEN "oos"
      ELSE IF val \in {"in stock", "instock", "available"} THEN "in"
      ELSE "none"

\* Button text is a sequence of pieces: phrases and the dash "-".
\* btn.get_text(strip=True).lower()
Lower(piece) ==
  CASE piece = "Add to Cart" -> "add to cart"
    [] piece = "Sold Out"    -> "sold out"
    [] piece = "Buy Now"     -> "buy now"
    [] OTHER                 -> piece

\* re.sub(r'[\-...].*$', '', btn_text).strip(): cut at the first dash.
RECURSIVE BeforeDash(_)
BeforeDash(text) ==
  IF text = <<>> \/ Head(text) = "-" THEN <<>>
  ELSE <<Lower(Head(text))>> \o BeforeDash(Tail(text))

add_to_cart_texts ==
  {"add to cart", "add to bag", "buy now", "purchase", "checkout"}

\* 3. Disabled primary add-to-cart / buy button, soup.find_all("button",
\* limit=100).
ButtonSignal(doc) ==
  \E i \in 1..Min(Len(doc.buttons), ButtonScanLimit) :
     /\ doc.buttons[i].disabled
     /\ LET btn_text_clean == BeforeDash(doc.buttons[i].text)
        IN  Len(btn_text_clean) = 1 /\ btn_text_clean[1] \in add_to_cart_texts

\* A variant of is_out_of_stock that looks at the buttons before the meta tag.
is_out_of_stock_buttonFirst(doc, url) ==
  LET s == StructuredSignal(doc.scripts, VariantId(url))
      m == MetaSignal(doc)
  IN  IF s # "none" THEN s = "oos"
      ELSE IF ButtonSignal(doc) THEN TRUE
      ELSE m = "oos"

is_out_of_stock(doc, url) ==
  LET s == StructuredSignal(doc.scripts, VariantId(url))
      m == MetaSignal(doc)
  IN  IF s # "none" THEN s = "oos"
      ELSE IF m # "none" THEN m = "oos"
      ELSE ButtonSignal(doc)

\* ------------------------------------------------------------------------
\* scrape_product
\* ------------------------------------------------------------------------
\* The result of scrape_product(url, label, retailer) when the server
\* answers the attempts with resps and serves doc: result["price"],
\* result["image"], result["oos"]; raised = TRUE when an exception leaves
\* the function; requests and backoffs are the HTTP requests issued and the
\* 3-second sleeps done; from is the stage that set the price and el the
\* markup element it was read from (0 if none); fetched tells whether a
\* response was obtained.
scrape_product(resps, doc, url) ==
  LET f      == Fetch(resps)
      failed == [price |-> NoPrice, image |-> "none", oos |-> FALSE,
                 raised |-> FALSE, fetched |-> f.ok, requests |-> f.requests,
                 backoffs |-> f.backoffs, from |-> "none", el |-> 0]
      j      == JsonLdPrice(doc.scripts, VariantId(url),
                            [price |-> NoPrice, image |-> "none"])
      sel    == SelectorStage(selectors, doc.elems)
      b      == BroadFallback(doc.elems)
      image  == IF j.image = "none" /\ doc.ogImage = "ok" THEN "ok"
                ELSE j.image
      oos    == is_out_of_stock(doc, url)
  IN  IF ~f.ok THEN failed
      ELSE IF j.price # NoPrice
      THEN [failed EXCEPT !.price = j.price, !.image = image, !.oos = oos,
                          !.from = "jsonld"]
      ELSE IF sel.raised
      THEN [failed EXCEPT !.raised = TRUE]
      ELSE IF b # 0
      THEN [failed EXCEPT !.price = clean_price(doc.elems[b].text),
                          !.image = image, !.oos = oos,
                          !.from = "broad", !.el = b]
      ELSE [failed EXCEPT !.image = image, !.oos = oos]

\* ------------------------------------------------------------------------
\* The bounded sets of inputs
\* ------------------------------------------------------------------------
SeqsUpTo(S, n) == UNION {[1..k -> S] : k \in 0..n}

Offer(u, p, lp, a) ==
  [url |-> u, price |-> p, lowPrice |-> lp, availability |-> a]

Item(offers, hv, img) ==
  [dict |-> TRUE, offers |-> offers, hasVariant |-> hv, image |-> img]

NonDictItem ==
  [dict |-> FALSE, offers |-> <<>>, hasVariant |-> <<>>, image |-> "none"]

Script(items) == [valid |-> TRUE, items |-> items]

InvalidScript == [valid |-> FALSE, items |-> <<>>]

Elem(tag, classes, text) ==
  [tag |-> tag, classes |-> classes, parent |-> 0, text |-> text]

Button(disabled, text) == [disabled |-> disabled, text |-> text]

Doc(scripts, elems, mp, mn, buttons) ==
  [scripts |-> scripts, elems |-> elems, metaProp |-> mp, metaName |-> mn,
   buttons |-> buttons, ogImage |-> "none"]

Url(param, value) == [param |-> param, value |-> value]

\* Page URLs: ?variant=41, ?sku=41, ?page=41 (no variant identifier).
Urls == {Url(p, <<"4", "1">>) : p \in {"variant", "sku", "page"}}

OfferUrls == {<<>>, <<"4", "1">>, <<"4", "1", "7">>}

\* (price, lowPrice) of an offer.
OfferPrices ==
  { <<<<>>, <<>>>>,
    <<<<"2", "0">>, <<>>>>,
    <<<<"$", "3", "0", ".", "0", "0">>, <<>>>>,
    <<<<"0">>, <<"1", "0">>>> }

PriceOffers == {Offer(u, pp[1], pp[2], "") : u \in OfferUrls, pp \in OfferPrices}

VariantLists ==
  { <<>>,
    << <<Offer(<<"4", "1">>, <<"1", "5">>, <<>>, "")>> >>,
    << <<Offer(<<"9">>, <<"1", "5">>, <<>>, "")>>,
       <<Offer(<<"4", "1">>, <<"2", "5">>, <<>>, "")>> >> }

\* Documents with one structured-data block of one item.
OfferDocs ==
  { Doc(<<Script(<<Item(os, hv, "none")>>)>>, <<>>, "absent", "absent", <<>>) :
      os \in SeqsUpTo(PriceOffers, MaxOffers), hv \in VariantLists }

\* Documents with several blocks and items, some of which raise.
ItemPool ==
  { Item(<<>>, <<>>, "none"),
    Item(<<Offer(<<>>, <<"2", "0">>, <<>>, "https://schema.org/OutOfStock")>>,
         <<>>, "none"),
    Item(<<Offer(<<"4", "1">>, <<"3", "0">>, <<>>, "https://schema.org/InStock")>>,
         <<>>, "ok"),
    Item(<<Offer(<<"9">>, <<>>, <<>>, "")>>, <<>>, "emptylist"),
    NonDictItem }

ScriptPool == {Script(its) : its \in SeqsUpTo(ItemPool, MaxItems)} \cup {InvalidScript}

BlockDocs ==
  { Doc(ss, <<>>, "absent", "absent", <<>>) : ss \in SeqsUpTo(ScriptPool, MaxScripts) }

\* Documents with two blocks of at most one item each.
SingleItemScripts == {Script(<<it>>) : it \in ItemPool} \cup {InvalidScript}

TwoBlockDocs ==
  { Doc(<<s1, s2>>, <<>>, "absent", "absent", <<>>) :
      s1 \in SingleItemScripts, s2 \in SingleItemScripts }

\* Documents without structured data, with markup price elements.
ElemPool ==
  { Elem("span", {"price"}, <<"$", "5", "0">>),
    Elem("span", {"price"}, <<"n", "/", "a">>),
    Elem("span", {"price", "was-price"}, <<"$", "6", "0">>),
    Elem("div", {"compare-at-price"}, <<>>),
    Elem("s", {}, <<>>),
    Elem("span", {"sale-price"}, <<"$", "4", "0">>) }

\* Every nesting of k elements: element i is at top level (parent 0) or
\* inside an earlier element.
Nestings(k) == { f \in [1..k -> 0..k] : \A i \in 1..k : f[i] < i }

MarkupDocs(k) ==
  { Doc(<<>>, [i \in 1..k |-> [es[i] EXCEPT !.parent = par[i]]],
        "absent", "absent", <<>>) :
      es \in [1..k -> ElemPool], par \in Nestings(k) }

\* Documents with the three stock signals.
StockOffers ==
  { Offer(u, <<"2", "0">>, <<>>, a) :
      u \in {<<>>, <<"4", "1">>},
      a \in {"https://schema.org/InStock", "https://schema.org/OutOfStock"} }
  \cup {Offer(<<>>, <<"2", "0">>, <<>>, "null"),
        Offer(<<"4", "1">>, <<"2", "0">>, <<>>, "PreOrder")}

ButtonPool ==
  { Button(TRUE,  <<"Add to Cart">>),
    Button(FALSE, <<"Add to Cart">>),
    Button(TRUE,  <<"Add to Cart", "-", "Sold Out">>),
    Button(TRUE,  <<"Sold Out">>) }

MetaPairs ==
  { <<"absent", "absent">>, <<"In Stock", "absent">>, <<"oos", "absent">>,
    <<"absent", "Out Of Stock ">>, <<"limited", "instock">> }

StockDocs ==
  { Doc(<<Script(<<Item(os, <<>>, "none")>>)>>, <<>>, m[1], m[2], bs) :
      os \in SeqsUpTo(StockOffers, MaxOffers), m \in MetaPairs,
      bs \in SeqsUpTo(ButtonPool, MaxButtons) }

\* The families of documents whose result depends on the page URL.
UrlDocs(family) ==
  CASE family = "offers" -> OfferDocs
    [] family = "blocks" -> BlockDocs
    [] family = "twoBlocks" -> TwoBlockDocs
    [] family = "stock" -> StockDocs

Families == {"offers", "blocks", "twoBlocks", "stock"}

\* What the server answers to one attempt: a network-level error, or a
\* status code.
Statuses == {200, 204, 403, 404, 429, 500, 503}

Responses ==
  {[err |-> TRUE, status |-> 0]} \cup {[err |-> FALSE, status |-> c] : c \in Statuses}

Ok200 == [err |-> FALSE, status |-> 200]

ResponsePairs == {<<r1, r2>> : r1 \in Responses, r2 \in Responses}

\* A document to serve while the fetch outcomes vary.
PlainDoc ==
  Doc(<<Script(<<Item(<<Offer(<<>>, <<"2", "0">>, <<>>, "")>>, <<>>, "none")>>)>>,
      <<>>, "absent", "absent", <<>>)

\* ------------------------------------------------------------------------
\* State
\* ------------------------------------------------------------------------
VARIABLES
  now,          \* the local clock, in hours
  history,      \* price_history.csv: the rows in file order
  alertedFile,  \* last_alerted.json: product key -> day of the last alert
  alerted,      \* run(): the in-memory alerted dict
  alerts,       \* run(): the list of drop events of this run
  pc,           \* where run() stands: "idle", "loop", "end", "done"
  idx,          \* run(): the index of the next retailer entry
  trace,        \* what this run did for each entry, in order
  last,         \* run(): the locals of the iteration done last
  emails,       \* the emails handed to send_email by this run
  stale,        \* run(): the stale list of the staleness check
  dropLog,      \* the [DROP] lines printed so far, with the alert decision
  xdoc,         \* scrape_product on its own: the document served
  xurl,         \*   the page URL
  xresps,       \*   the responses to the two attempts
  xstage,       \*   "input", "scraped", "stock"
  xres,         \*   the result of scrape_product
  xoos          \*   the result of is_out_of_stock

runVars == <<now, history, alertedFile, alerted, alerts, pc, idx, trace, last,
             emails, stale, dropLog>>

xVars == <<xdoc, xurl, xresps, xstage, xres, xoos>>

vars == <<runVars, xVars>>

\* ------------------------------------------------------------------------
\* scrape_product and is_out_of_stock applied to the bounded inputs
\* ------------------------------------------------------------------------
NoResult ==
  [price |-> NoPrice, image |-> "none", oos |-> FALSE, raised |-> FALSE,
   fetched |-> FALSE, requests |-> <<>>, backoffs |-> 0, from |-> "none",
   el |-> 0]

XInit ==
  /\ \/ /\ \E family \in Families : xdoc \in UrlDocs(family)
        /\ xurl \in Urls /\ xresps = <<Ok200, Ok200>>
     \/ /\ \E k \in 0..MaxElems : xdoc \in MarkupDocs(k)
        /\ xurl = Url("variant", <<"4", "1">>)
        /\ xresps = <<Ok200, Ok200>>
     \/ xdoc = PlainDoc /\ xurl \in Urls /\ xresps \in ResponsePairs
  /\ xstage = "input"
  /\ xres = NoResult
  /\ xoos = FALSE

Scrape ==
  /\ xstage = "input"
  /\ xres' = scrape_product(xresps, xdoc, xurl)
  /\ xstage' = "scraped"
  /\ UNCHANGED <<xdoc, xurl, xresps, xoos, runVars>>

CheckStock ==
  /\ xstage = "input"
  /\ xoos' = is_out_of_stock(xdoc, xurl)
  /\ xstage' = "stock"
  /\ UNCHANGED <<xdoc, xurl, xresps, xres, runVars>>

\* ------------------------------------------------------------------------
\* run(): configuration, history, alert suppression
\* ------------------------------------------------------------------------
\* config["buckets"], flattened: one entry per retailer of each bucket, with
\* its product key "{label} - {retailer}" and its URL.
buckets ==
  << [key |-> "A", url |-> Url("variant", <<"4", "1">>)],
     [key |-> "B", url |-> Url("page", <<"4", "1">>)] >>

Keys == {buckets[i].key : i \in 1..Len(buckets)}

\* load_alerted(): the stored mapping; NoDate for a key without entry.
load_alerted(file) == file

\* A variant of save_alerted that also drops the entries of the cutoff day.
save_alerted_strict(data, t) ==
  LET cutoff == DayOf(t - PruneDays * HoursPerDay)
  IN  [k \in DOMAIN data |->
         IF data[k] # NoDate /\ data[k] > cutoff THEN data[k] ELSE NoDate]

\* save_alerted(data): entries older than 2 days are dropped.
save_alerted(data, t) ==
  LET cutoff == DayOf(t - PruneDays * HoursPerDay)
  IN  [k \in DOMAIN data |->
         IF data[k] # NoDate /\ data[k] >= cutoff THEN data[k] ELSE NoDate]

\* A variant of already_alerted_today that ignores the date of the entry.
already_alerted_ever(data, name, t) == data[name] # NoDate

already_alerted_today(data, name, t) == data[name] = DayOf(t)

mark_alerted(data, name, t) == [data EXCEPT ![name] = DayOf(t)]

\* f"{price:.2f}" read back by float(): the price rounded to a whole cent.
\* A price exactly between two cents goes either way, depending on its
\* binary representation.
Format2f(price) ==
  LET r == price % 10 IN
  IF r < 5 THEN {price - r}
  ELSE IF r > 5 THEN {price - r + 10}
  ELSE {price - r, price - r + 10}

RowsOf(hist, name) == SelectSeq(hist, LAMBDA r : r.name = name)

\* read_last_price(label, retailer)
read_last_price(hist, name) ==
  LET rows == RowsOf(hist, name)
  IN  IF rows = <<>> THEN NoPrice ELSE rows[Len(rows)].price

\* A variant of log_price that writes the new row before the old ones.
log_price_front(hist, name, logged, oos, t) ==
  <<[timestamp |-> t, name |-> name, price |-> logged, oos |-> oos]>> \o hist

\* log_price(...): append one row; logged is the formatted price.
log_price(hist, name, logged, oos, t) ==
  Append(hist, [timestamp |-> t, name |-> name, price |-> logged, oos |-> oos])

\* A variant of Outcome that takes an unchanged price for a drop.
Outcome_notStrict(result, old_price, alreadyAlerted) ==
  IF result.raised THEN "error"
  ELSE IF result.price = NoPrice
       THEN (IF result.fetched THEN "skipped" ELSE "fetchfail")
  ELSE IF result.oos THEN "oos"
  ELSE IF old_price = NoPrice THEN "baseline"
  ELSE IF result.price <= old_price
       THEN (IF ~alreadyAlerted THEN "alert" ELSE "suppressed")
  ELSE "steady"

\* The branch run() takes for one entry (lines 481-514), named after the
\* tag it prints.
Outcome(result, old_price, alreadyAlerted) ==
  IF result.raised THEN "error"
  ELSE IF result.price = NoPrice
       THEN (IF result.fetched THEN "skipped" ELSE "fetchfail")
  ELSE IF result.oos THEN "oos"
  ELSE IF old_price = NoPrice THEN "baseline"
  ELSE IF result.price < old_price
       THEN (IF ~alreadyAlerted THEN "alert" ELSE "suppressed")
  ELSE "steady"

\* Whether the iteration reaches time.sleep(2): `continue` inside the try
\* goes straight to the next entry.
Sleeps(outcome) == outcome \notin {"fetchfail", "skipped", "oos"}

\* A variant of NextEntry in which an exception ends the loop.
NextEntry_abortOnError(i, outcome) ==
  IF outcome = "error" THEN Len(buckets) + 1 ELSE i + 1

\* The entry the loop handles after this one.
NextEntry(i, outcome) == i + 1

\* A variant of StaleList that counts a row of exactly 24 hours as stale.
StaleList_inclusive(hist, t) ==
  LET cutoff_ts == t - STALE_HOURS IN
  { name \in Keys :
      LET product_rows == RowsOf(hist, name) IN
      \/ product_rows = <<>>
      \/ product_rows[Len(product_rows)].timestamp <= cutoff_ts }

\* The staleness check at the end of run().
StaleList(hist, t) ==
  LET cutoff_ts == t - STALE_HOURS IN
  { name \in Keys :
      LET product_rows == RowsOf(hist, name) IN
      \/ product_rows = <<>>
      \/ product_rows[Len(product_rows)].timestamp < cutoff_ts }

\* ------------------------------------------------------------------------
\* The inputs of a run
\* ------------------------------------------------------------------------
PricedDoc(price, avail) ==
  Doc(<<Script(<<Item(<<Offer(<<>>, price, <<>>, avail)>>, <<>>, "none")>>)>>,
      <<>>, "absent", "absent", <<>>)

RunPrices == {<<"3", "0">>, <<"2", "0">>, <<"1", "9", ".", "9", "9", "6">>}

\* A page without any price, and a page whose sale-price element makes
\* the selector stage raise.
EmptyDoc == Doc(<<>>, <<>>, "absent", "absent", <<>>)

SaleDoc ==
  Doc(<<>>, <<Elem("span", {"sale-price"}, <<"$", "4", "0">>)>>,
      "absent", "absent", <<>>)

\* The pages the site of each product serves.
RunDocs(key) ==
  IF key = "A"
  THEN { PricedDoc(p, a) :
           p \in RunPrices,
           a \in {"https://schema.org/InStock", "https://schema.org/OutOfStock"} }
       \cup {EmptyDoc, SaleDoc}
  ELSE {PricedDoc(<<"2", "0">>, "https://schema.org/InStock"), EmptyDoc, SaleDoc}

RunResponses ==
  { <<Ok200, Ok200>>,
    <<[err |-> FALSE, status |-> 403], Ok200>>,
    <<[err |-> FALSE, status |-> 404], Ok200>> }

\* ------------------------------------------------------------------------
\* run()
\* ------------------------------------------------------------------------
\* The locals of an iteration before any entry was processed.
NoEntry ==
  [name |-> "", price |-> NoPrice, oos |-> FALSE, old_price |-> NoPrice,
   known |-> FALSE, outcome |-> "none"]

RunInit ==
  /\ now = 0
  /\ history = <<>>
  /\ alertedFile = [k \in Keys |-> NoDate]
  /\ alerted = [k \in Keys |-> NoDate]
  /\ alerts = <<>>
  /\ pc = "idle"
  /\ idx = 1
  /\ trace = <<>>
  /\ emails = <<>>
  /\ stale = {}
  /\ dropLog = <<>>
  /\ last = NoEntry

\* Time passes between runs; a run is short against the resolution of the
\* clock.
Tick ==
  /\ pc = "idle"
  /\ now + TickHours <= MaxHours
  /\ now' = now + TickHours
  /\ UNCHANGED <<history, alertedFile, alerted, alerts, pc, idx, trace, last,
                 emails, stale, dropLog, xVars>>

\* run(), lines 460-470: ensure_csv_header, load_config, load_alerted.
StartRun ==
  /\ pc = "idle"
  /\ Len(history) < MaxRows
  /\ alerted' = load_alerted(alertedFile)
  /\ alerts' = <<>>
  /\ trace' = <<>>
  /\ emails' = <<>>
  /\ idx' = 1
  /\ last' = NoEntry
  /\ pc' = IF buckets = <<>> THEN "end" ELSE "loop"
  /\ UNCHANGED <<now, history, alertedFile, stale, dropLog, xVars>>

\* run(), lines 475-516: the body of one iteration of the loop over the
\* retailers, for the responses and the page the site serves.
Entry(resps, doc) ==
  LET name      == buckets[idx].key
      result    == scrape_product(resps, doc, buckets[idx].url)
      old_price == read_last_price(history, name)
      outcome   == Outcome(result, old_price,
                           already_alerted_today(alerted, name, now))
  IN  /\ IF result.price # NoPrice
         THEN \E logged \in Format2f(result.price) :
                history' = log_price(history, name, logged, result.oos, now)
         ELSE history' = history
      /\ IF outcome = "alert"
         THEN /\ alerts' = Append(alerts,
                             [name |-> name, old_price |-> old_price,
                              new_price |-> result.price])
              /\ alerted' = mark_alerted(alerted, name, now)
         ELSE UNCHANGED <<alerts, alerted>>
      /\ dropLog' = IF outcome \in {"alert", "suppressed"}
                    THEN Append(dropLog, [name |-> name, day |-> DayOf(now),
                                          alerted |-> outcome = "alert"])
                    ELSE dropLog
      /\ trace' = Append(trace,
                    [entry |-> idx, outcome |-> outcome,
                     slept |-> Sleeps(outcome)])
      /\ last' = [name |-> name, price |-> result.price,
                  oos |-> result.oos,
                  old_price |-> IF result.price # NoPrice
                                THEN old_price ELSE NoPrice,
                  known |-> already_alerted_today(alerted, name, now),
                  outcome |-> outcome]
      /\ idx' = NextEntry(idx, outcome)
      /\ pc' = IF idx' > Len(buckets) THEN "end" ELSE "loop"
      /\ UNCHANGED <<now, alertedFile, emails, stale, xVars>>

\* One iteration, over the responses and pages of the bounded run inputs;
\* a row is logged only while the history has room.
ProcessEntry ==
  /\ pc = "loop"
  /\ \E resps \in RunResponses, doc \in RunDocs(buckets[idx].key) :
       /\ scrape_product(resps, doc, buckets[idx].url).price # NoPrice
            => Len(history) < MaxRows
       /\ Entry(resps, doc)

\* send_email(config, subject, html): the mail is sent, or the SMTP
\* exchange fails and the exception is caught and printed.
send_email(kind, names, ok) == [kind |-> kind, names |-> names, ok |-> ok]

\* run(), lines 518-550: send_alert, save_alerted and the staleness check
\* with send_staleness_alert.  (send_weekly_summary, sent in between in
\* weekly mode, only reads the history.)
FinishRun ==
  /\ pc = "end"
  /\ \E ok1 \in BOOLEAN, ok2 \in BOOLEAN :
       LET stale_now == StaleList(history, now)
       IN  /\ stale' = stale_now
           /\ emails' =
                (IF alerts # <<>>
                 THEN <<send_email("drop",
                                   {alerts[i].name : i \in 1..Len(alerts)}, ok1)>>
                 ELSE <<>>)
                \o (IF stale_now # {}
                    THEN <<send_email("stale", stale_now, ok2)>> ELSE <<>>)
  /\ alertedFile' = save_alerted(alerted, now)
  /\ pc' = "done"
  /\ UNCHANGED <<now, history, alerted, alerts, idx, trace, last, dropLog, xVars>>

\* The process ends: what run() held in memory is gone, the two files stay.
Exit ==
  /\ pc = "done"
  /\ pc' = "idle"
  /\ alerted' = [k \in Keys |-> NoDate]
  /\ alerts' = <<>>
  /\ trace' = <<>>
  /\ emails' = <<>>
  /\ stale' = {}
  /\ idx' = 1
  /\ last' = NoEntry
  /\ UNCHANGED <<now, history, alertedFile, dropLog, xVars>>

Init == RunInit /\ xdoc = PlainDoc /\ xurl = Url("page", <<>>)
        /\ xresps = <<Ok200, Ok200>> /\ xstage = "run" /\ xres = NoResult
        /\ xoos = FALSE

Next == Tick \/ StartRun \/ ProcessEntry \/ FinishRun \/ Exit

Spec == Init /\ [][Next]_vars

\* ------------------------------------------------------------------------
\* Runs without end: the tracker is started again and again, day after day
\* ------------------------------------------------------------------------
\* The code compares stored dates with today and with the day two days
\* back, and stored timestamps with the instant 24 hours back; of each
\* product's rows it reads the last one only (read_last_price, the
\* staleness check).  So the clock is kept relative to today: today is day
\* PruneDays + 1, a new day moves every stored date and timestamp one day
\* back, and whatever is older than the origin stays at the origin.
LiveNow == (PruneDays + 1) * HoursPerDay

ShiftHours(t) == IF t >= HoursPerDay THEN t - HoursPerDay ELSE 0

ShiftDay(d) == IF d = NoDate THEN NoDate ELSE IF d > 0 THEN d - 1 ELSE 0

\* The last row of every product, in file order: the rows a later run reads.
RECURSIVE LastRows(_)
LastRows(hist) ==
  IF hist = <<>> THEN <<>>
  ELSE IF \E i \in 2..Len(hist) : hist[i].name = Head(hist).name
       THEN LastRows(Tail(hist))
       ELSE <<Head(hist)>> \o LastRows(Tail(hist))

\* The pages served: priced and in stock, or without any price.
LivePrices == {<<"3", "0">>, <<"2", "0">>, <<"1", "0">>}

LiveDocs ==
  {PricedDoc(p, "https://schema.org/InStock") : p \in LivePrices} \cup {EmptyDoc}

LiveInit ==
  /\ now = LiveNow
  /\ history = <<>>
  /\ alertedFile = [k \in Keys |-> NoDate]
  /\ alerted = [k \in Keys |-> NoDate]
  /\ alerts = <<>>
  /\ pc = "idle"
  /\ idx = 1
  /\ trace = <<>>
  /\ emails = <<>>
  /\ stale = {}
  /\ dropLog = <<>>
  /\ last = NoEntry
  /\ xdoc = PlainDoc /\ xurl = Url("page", <<>>)
  /\ xresps = <<Ok200, Ok200>> /\ xstage = "run" /\ xres = NoResult
  /\ xoos = FALSE

\* Midnight passes between two runs.
LiveTick ==
  /\ pc = "idle"
  /\ history' = [i \in 1..Len(history) |->
                   [history[i] EXCEPT !.timestamp = ShiftHours(@)]]
  /\ alertedFile' = [k \in Keys |-> ShiftDay(alertedFile[k])]
  /\ UNCHANGED <<now, alerted, alerts, pc, idx, trace, last, emails, stale,
                 dropLog, xVars>>

\* One iteration of the loop, every response being a 200.
LiveEntry ==
  /\ pc = "loop"
  /\ \E doc \in LiveDocs : Entry(<<Ok200, Ok200>>, doc)

\* The process ends: what run() held in memory is gone, the two files stay;
\* of the history the rows a later run can read are kept.
LiveExit ==
  /\ pc = "done"
  /\ pc' = "idle"
  /\ history' = LastRows(history)
  /\ alerted' = [k \in Keys |-> NoDate]
  /\ alerts' = <<>>
  /\ trace' = <<>>
  /\ emails' = <<>>
  /\ stale' = {}
  /\ idx' = 1
  /\ last' = NoEntry
  /\ dropLog' = <<>>
  /\ UNCHANGED <<now, alertedFile, xVars>>

LiveNext == LiveTick \/ StartRun \/ LiveEntry \/ FinishRun \/ LiveExit

\* The scheduler starts the tracker again and again and days keep passing;
\* a started run goes through its loop and its end-of-run steps.
SpecLive ==
  /\ LiveInit /\ [][LiveNext]_vars
  /\ SF_vars(LiveTick)
  /\ WF_vars(StartRun) /\ WF_vars(LiveEntry) /\ WF_vars(FinishRun)
  /\ WF_vars(LiveExit)

\* scrape_product and is_out_of_stock on their own.
ExtractInit == RunInit /\ XInit

ExtractNext == Scrape \/ CheckStock

SpecExtract == ExtractInit /\ [][ExtractNext]_vars

\* ------------------------------------------------------------------------
\* Properties
\* ------------------------------------------------------------------------
\* The entry being processed by a step of the loop.
EntryStep == Len(trace') = Len(trace) + 1

\* The rows of a product key in the history, by index.
RowIdx(name) == {i \in 1..Len(history) : history[i].name = name}

\* C1: for one product key, a falling in-stock reading emits a drop alert
\* exactly when no earlier falling reading of that key happened on the same
\* calendar day: the first one of a day alerts, every later one of that day
\* is suppressed, one on a later day alerts again; so no key has two drop
\* alerts on one calendar day.
C1_OncePerDay ==
  /\ \A i \in 1..Len(dropLog) :
       dropLog[i].alerted <=>
         ~\E j \in 1..(i - 1) : /\ dropLog[j].name = dropLog[i].name
                                /\ dropLog[j].day = dropLog[i].day
  /\ \A i, j \in 1..Len(dropLog) :
       (i < j /\ dropLog[i].alerted /\ dropLog[j].alerted
          /\ dropLog[i].name = dropLog[j].name)
         => dropLog[i].day # dropLog[j].day

\* A second falling reading on the day of an alert was suppressed.
C1_Witness ==
  \E i, j \in 1..Len(dropLog) :
     /\ i < j
     /\ dropLog[i].name = dropLog[j].name
     /\ dropLog[i].day = dropLog[j].day
     /\ dropLog[i].alerted
     /\ ~dropLog[j].alerted
     /\ pc = "done"

\* C2: processing one product adds a drop event to the alert list if and
\* only if a price was extracted, the item is in stock, the key has a row in
\* the history, the new price is strictly below the price of the key's last
\* row, and the key was not alerted today; otherwise the alert list and the
\* suppression map stay as they are.
C2_DropIffAllHold ==
  [][ EntryStep =>
        LET name  == buckets[idx].key
            prior == RowIdx(name)
            cond  == /\ last'.price # NoPrice
                     /\ ~last'.oos
                     /\ prior # {}
                     /\ \E i \in prior :
                          /\ \A j \in prior : j <= i
                          /\ last'.price < history[i].price
                     /\ alerted[name] # DayOf(now)
        IN  IF cond
            THEN /\ Len(alerts') = Len(alerts) + 1
                 /\ SubSeq(alerts', 1, Len(alerts)) = alerts
                 /\ alerts'[Len(alerts')].name = name
                 /\ alerts'[Len(alerts')].new_price = last'.price
            ELSE alerts' = alerts /\ alerted' = alerted ]_vars

\* A drop event was added for a real fall of an in-stock price.
C2_Witness ==
  /\ last.outcome = "alert"
  /\ last.price # NoPrice /\ ~last.oos
  /\ last.old_price > last.price
  /\ Len(alerts) > 0
  /\ alerts[Len(alerts)].name = last.name

\* C3: a second HTTP attempt is made only after a first answer 403, 429 or
\* 503; after any other first outcome that is not 200 no second request is
\* issued and nothing is read from the page.
C3_RetryOnlyWhenBlocked ==
  xstage = "scraped" =>
    LET first == xresps[1] IN
    /\ Len(xres.requests) = 2
         => (~first.err /\ first.status \in {403, 429, 503})
    /\ (first.err \/ first.status \notin {200, 403, 429, 503})
         => /\ Len(xres.requests) = 1
            /\ xres.price = NoPrice /\ xres.image = "none" /\ ~xres.oos

\* C4: in a run every configured entry is processed exactly once, in
\* configuration order, whatever happened to the entries before it, and the
\* run then sends the alerts, saves the suppression state and checks
\* staleness.
C4_EveryEntryOnce ==
  /\ \A i \in 1..Len(trace) : trace[i].entry = i
  /\ pc = "loop" => (Len(trace) = idx - 1 /\ idx <= Len(buckets))
  /\ pc \in {"end", "done"} => Len(trace) = Len(buckets)
  /\ pc = "done" =>
       /\ alerts # <<>> => \E m \in 1..Len(emails) : emails[m].kind = "drop"
       /\ \A i \in 1..Len(alerts) :
            alertedFile[alerts[i].name] = alerted[alerts[i].name]
       /\ \A k \in Keys : RowIdx(k) = {} => k \in stale

\* A run ended after its first entry raised and its second one was logged.
C4_Witness ==
  /\ pc = "done"
  /\ Len(trace) = 2
  /\ trace[1].outcome = "error"
  /\ trace[2].outcome = "baseline"
  /\ history # <<>>

\* C5: the 2-second delay is executed after the processing of every
\* product, whatever its outcome.
C5_DelayAfterEveryEntry ==
  \A i \in 1..Len(trace) : trace[i].slept

\* C6: the history is append-only: processing a product appends exactly one
\* row, for its key, with the extracted price (as formatted, to the cent)
\* and the out-of-stock flag, when a price was extracted, also for an
\* out-of-stock item; it appends nothing otherwise; no step changes, removes
\* or reorders the rows already there.
C6_AppendOnly ==
  [][ /\ Len(history') >= Len(history)
      /\ SubSeq(history', 1, Len(history)) = history
      /\ IF EntryStep /\ last'.price # NoPrice
         THEN /\ Len(history') = Len(history) + 1
              /\ LET row == history'[Len(history')] IN
                 /\ row.name = buckets[idx].key
                 /\ row.oos = last'.oos
                 /\ row.price % 10 = 0
                 /\ row.price - last'.price \in -5..5
                 /\ row.timestamp = now
         ELSE history' = history ]_vars

\* A row of an out-of-stock item was appended after an earlier row.
C6_Witness ==
  /\ Len(history) >= 2
  /\ history[Len(history)].oos
  /\ last.oos /\ last.price # NoPrice
  /\ last.outcome = "oos"

\* C7: at the end of a run the staleness list holds exactly the configured
\* keys without any row or whose most recent row is older than 24 hours,
\* and one staleness notice is sent if and only if the list is not empty.
C7_StaleExactly ==
  pc = "done" =>
    /\ \A k \in Keys :
         k \in stale <=>
           \/ RowIdx(k) = {}
           \/ \E i \in RowIdx(k) : /\ \A j \in RowIdx(k) : j <= i
                                   /\ now - history[i].timestamp > 24
    /\ stale \subseteq Keys
    /\ Cardinality({m \in 1..Len(emails) : emails[m].kind = "stale"})
         = IF stale = {} THEN 0 ELSE 1
    /\ \A m \in 1..Len(emails) :
         emails[m].kind = "stale" => emails[m].names = stale

\* One key is stale with an old row while another, logged in this run, is
\* fresh.
C7_Witness ==
  /\ pc = "done"
  /\ \E k \in stale : RowIdx(k) # {}
  /\ \E k \in Keys \ stale :
       \E i \in RowIdx(k) : history[i].timestamp = now
  /\ \E m \in 1..Len(emails) : emails[m].kind = "stale"

\* The price an offer exposes (price, else lowPrice) and whether it is usable.
OfferPrice(o) == clean_price(IF o.price # <<>> THEN o.price ELSE o.lowPrice)

OfferUsable(o) ==
  (o.price # <<>> \/ o.lowPrice # <<>>) /\ Usable(OfferPrice(o))

RECURSIVE ItemsOffers(_)
ItemsOffers(items) ==
  IF items = <<>> THEN <<>>
  ELSE AllOffers(Head(items)) \o ItemsOffers(Tail(items))

\* Every offer of the document, over all blocks and items, in document order.
RECURSIVE DocOffers(_)
DocOffers(scripts) ==
  IF scripts = <<>> THEN <<>>
  ELSE ItemsOffers(Head(scripts).items) \o DocOffers(Tail(scripts))

\* Every block parses and no item makes the loop body raise.
NoBlockRaises(doc) ==
  \A s \in 1..Len(doc.scripts) :
     /\ doc.scripts[s].valid
     /\ \A i \in 1..Len(doc.scripts[s].items) :
          /\ doc.scripts[s].items[i].dict
          /\ doc.scripts[s].items[i].image # "emptylist"

MatchedIn(offers, vid) == {k \in 1..Len(offers) : Contains(vid, offers[k].url)}

\* C8 as stated: among the offers collected from every block and item of
\* the document, if exactly one offer's URL contains the variant identifier
\* of the page URL and that offer has a usable price, the extracted price is
\* that offer's price.
C8_VariantOfferWins ==
  (xstage = "scraped" /\ xres.fetched /\ VariantId(xurl) # <<>>
     /\ NoBlockRaises(xdoc)) =>
    LET all == DocOffers(xdoc.scripts)
        m   == MatchedIn(all, VariantId(xurl))
    IN  \A k \in m :
          (m = {k} /\ OfferUsable(all[k])) => xres.price = OfferPrice(all[k])

\* C8, amended: variant filtering works per structured-data item.  For an
\* item the code reaches while no earlier item has yielded a price: if
\* exactly one of that item's offers (its own and those under hasVariant)
\* has a URL containing the identifier and that offer has a usable price,
\* the extracted price is that offer's price, even if another offer of the
\* item with a usable price comes first.
C8_VariantOfferWinsPerItem ==
  (xstage = "scraped" /\ xres.fetched /\ VariantId(xurl) # <<>>) =>
    \A s \in 1..Len(xdoc.scripts) :
      \A i \in 1..Len(xdoc.scripts[s].items) :
        LET vid     == VariantId(xurl)
            items   == xdoc.scripts[s].items
            reached == /\ xdoc.scripts[s].valid
                       /\ \A k \in 1..i : items[k].dict
                       /\ \A k \in 1..(i - 1) : items[k].image # "emptylist"
            before  == ItemsPrice(SubSeq(items, 1, i - 1), vid,
                         JsonLdPrice(SubSeq(xdoc.scripts, 1, s - 1), vid,
                                     [price |-> NoPrice, image |-> "none"]))
            all     == AllOffers(items[i])
            m       == MatchedIn(all, vid)
        IN  (reached /\ before.price = NoPrice) =>
              \A k \in m :
                (m = {k} /\ OfferUsable(all[k]))
                  => xres.price = OfferPrice(all[k])

\* The matched offer of an item won over an earlier offer of that item with
\* another usable price.
C8_Witness ==
  /\ xstage = "scraped" /\ xres.fetched /\ VariantId(xurl) # <<>>
  /\ Len(xdoc.scripts) = 1 /\ xdoc.scripts[1].valid
  /\ Len(xdoc.scripts[1].items) = 1 /\ xdoc.scripts[1].items[1].dict
  /\ LET all == AllOffers(xdoc.scripts[1].items[1]) IN
     /\ Len(all) >= 2
     /\ MatchedIn(all, VariantId(xurl)) = {2}
     /\ OfferUsable(all[1]) /\ OfferUsable(all[2])
     /\ OfferPrice(all[1]) # OfferPrice(all[2])
     /\ xres.price = OfferPrice(all[2])

\* C9: the markup element the price is read from has no class of the
\* compare-at vocabulary, and neither has any element enclosing it.
C9_NeverCompareAt ==
  (xstage = "scraped" /\ xres.el # 0) =>
    \A a \in {xres.el} \cup Parents(xdoc.elems, xres.el) :
       xdoc.elems[a].classes
         \cap {"compare-at-price", "was-price", "strikethrough"} = {}

SelectorCandidates(elems) ==
  { i \in 1..Len(elems) :
      /\ \E s \in 1..Len(selectors) :
           Matches(elems[i], selectors[s].tag, selectors[s].class)
      /\ \A a \in {i} \cup Parents(elems, i) :
           elems[a].classes
             \cap {"compare-at-price", "was-price", "strikethrough"} = {}
      /\ Usable(clean_price(elems[i].text)) }

\* C11: when the page was fetched, no structured offer has a usable price
\* and some element qualifies for the selector cascade, scrape_product
\* returns without raising and its price is the number of such an element.
C11_SelectorPriceReturned ==
  ( /\ xstage = "scraped"
    /\ xres.fetched
    /\ \A k \in 1..Len(DocOffers(xdoc.scripts)) :
         ~OfferUsable(DocOffers(xdoc.scripts)[k])
    /\ SelectorCandidates(xdoc.elems) # {} )
  => /\ ~xres.raised
     /\ xres.price \in { clean_price(xdoc.elems[i].text) :
                           i \in SelectorCandidates(xdoc.elems) }

\* The step that ends a run: the mails are sent and the store is written.
RunEnds == pc = "end" /\ pc' = "done"

\* The products for which the run emitted a drop alert.
AlertedNow == {alerts[i].name : i \in 1..Len(alerts)}

\* C12: the store written at the end of a run holds exactly the entries of
\* the map the run worked on (the stored entries as loaded at the start of
\* the run, with today's date for every product the run alerted for) whose
\* date is not older than 2 days before the day of the save; older entries
\* are dropped, and every product alerted for in the run is stored with
\* today's date.
C12_StorePrunedOnSave ==
  [][ RunEnds =>
        /\ \A k \in Keys :
             LET held == IF k \in AlertedNow THEN DayOf(now)
                         ELSE alertedFile[k]
             IN  alertedFile'[k] =
                   IF held # NoDate /\ held >= DayOf(now) - 2
                   THEN held ELSE NoDate
        /\ \A k \in AlertedNow : alertedFile'[k] = DayOf(now) ]_vars

\* A run has ended whose map held an entry three days old, which the save
\* dropped, after an earlier run saved it.
C12_Witness ==
  /\ pc = "done"
  /\ \E k \in Keys :
       /\ alerted[k] # NoDate
       /\ alerted[k] < DayOf(now) - 2
       /\ alertedFile[k] = NoDate
       /\ \E d \in 1..Len(dropLog) :
            dropLog[d].name = k /\ dropLog[d].alerted /\ dropLog[d].day = alerted[k]

\* C13: when a run has ended, a product the run alerted for is stored with
\* today's date only if the drop alert mail naming it was sent
\* successfully.
C13_MarkedOnlyIfSent ==
  pc = "done" =>
    \A k \in AlertedNow :
       alertedFile[k] = DayOf(now) =>
         \E e \in 1..Len(emails) :
            emails[e].kind = "drop" /\ k \in emails[e].names /\ emails[e].ok

\* C14: once a falling in-stock reading of a product was suppressed by the
\* once-per-day rule, a later iteration for that product emits a drop
\* alert, unless a later iteration finds no price, an item out of stock or
\* a price other than the one last logged.
C14_NoDropLost ==
  \A k \in Keys :
     (last.name = k /\ last.outcome = "suppressed")
       ~> ( /\ last.name = k
            /\ \/ last.outcome = "alert"
               \/ last.outcome \notin {"alert", "suppressed", "steady"}
               \/ last.outcome = "steady" /\ last.price # last.old_price )

====
